---- MODULE Spec2Model ----
(***************************************************************************)
(* Model of web_article_extractor: the three-stage extraction pipeline     *)
(* (ArticleExtractor.extract_from_url), its three stage extractors, the    *)
(* date normaliser and the batch processor (ArticleExtractor.process_csv). *)
(*                                                                         *)
(* Python values are records [type, lead, core, trail, tag]:               *)
(*   a str is `lead` whitespace characters, then `core` characters of      *)
(*   content identified by `tag` (content neither starts nor ends with     *)
(*   whitespace), then `trail` whitespace characters;                      *)
(*   None, float (NaN, 0.0), int and datetime carry their value in `tag`.  *)
(* A call's outcome is a record [kind, text, date, exc]: kind "return"     *)
(* with the returned (text, date), or kind "raise" with the exception      *)
(* class that leaves the call.                                             *)
(***************************************************************************)
EXTENDS Integers, Sequences, FiniteSets, TLC

\* ------------------------------------------------------------------ bounds
MaxPad == 1      \* most whitespace characters around a text
MaxRows == 2     \* most rows of an input table
MaxCols == 2     \* most configured URL columns

\* The acceptance threshold of all three stages: len(text) > 100.
MinTextLength == 100

\* ------------------------------------------------------------ Python values
PyVal(ty, l, c, t, g) == [type |-> ty, lead |-> l, core |-> c, trail |-> t, tag |-> g]
PyNone == PyVal("NoneType", 0, 0, 0, "None")
Str(l, c, t, g) == PyVal("str", l, c, t, g)
EmptyStr == Str(0, 0, 0, "")
NaN == PyVal("float", 0, 0, 0, "nan")
ZeroFloat == PyVal("float", 0, 0, 0, "0.0")
IntVal(g) == PyVal("int", 0, 0, 0, g)
DateTime(g) == PyVal("datetime", 0, 0, 0, g)

\* bool(v): None, "", and a zero number are falsy; NaN and a datetime are truthy.
Truthy(v) ==
  CASE v.type = "NoneType" -> FALSE
    [] v.type = "str" -> v.lead + v.core + v.trail > 0
    [] v.type = "float" -> v.tag # "0.0"
    [] v.type = "int" -> v.tag # "0"
    [] OTHER -> TRUE

IsStr(v) == v.type = "str"

\* len(s) of a str
StrLen(v) == v.lead + v.core + v.trail

\* s.strip() of a str: the surrounding whitespace goes, the content stays.
StrStrip(v) == Str(0, v.core, 0, IF v.core = 0 THEN "" ELSE v.tag)

\* ------------------------------------------------------------- call outcomes
Return(text, date) == [kind |-> "return", text |-> text, date |-> date, exc |-> "none"]
Raise(e) == [kind |-> "raise", text |-> PyNone, date |-> PyNone, exc |-> e]
Negative == Return(PyNone, PyNone)

\* The base classes of the exception classes the model raises (Python's and the
\* libraries' hierarchies): requests' HTTPError and Timeout are RequestExceptions,
\* RequestException is an OSError, JSONDecodeError is a ValueError.
Bases(e) ==
  CASE e = "HTTPError" -> {"HTTPError", "RequestException", "OSError"}
    [] e = "Timeout" -> {"Timeout", "RequestException", "OSError"}
    [] e = "RequestException" -> {"RequestException", "OSError"}
    [] e = "JSONDecodeError" -> {"JSONDecodeError", "ValueError"}
    [] OTHER -> {e}

\* except (classes) as e: does the clause catch an exception of class e?
Caught(e, classes) == Bases(e) \cap classes # {}

\* ------------------------------------------------- character-level strings
\* The LLM's response text is a sequence of characters. A JSON member is one
\* token: "t:..." stands for a well-formed  "text": <value>  member and "d:..."
\* for a well-formed  "date": <value>  member (separators included).
Whitespace == {" ", "\n", "\t"}

StartsWith(s, p) == Len(s) >= Len(p) /\ SubSeq(s, 1, Len(p)) = p
EndsWith(s, p) == Len(s) >= Len(p) /\ SubSeq(s, Len(s) - Len(p) + 1, Len(s)) = p

RECURSIVE LStrip(_)
LStrip(s) == IF s # <<>> /\ Head(s) \in Whitespace THEN LStrip(Tail(s)) ELSE s

RECURSIVE RStrip(_)
RStrip(s) ==
  IF s # <<>> /\ s[Len(s)] \in Whitespace THEN RStrip(SubSeq(s, 1, Len(s) - 1)) ELSE s

\* str.strip() on a character sequence
SeqStrip(s) == RStrip(LStrip(s))

\* "bq" is the backquote character: a fence marker is three of them.
Fence == <<"bq", "bq", "bq">>
FenceJson == <<"bq", "bq", "bq", "j", "s", "o", "n">>

TextTokens == {"t:long", "t:padlong", "t:padedge", "t:empty", "t:null", "t:num"}
DateTokens == {"d:iso", "d:text", "d:bad", "d:null", "d:num"}

\* The Python value a member token's JSON value decodes to.
TextValue(tok) ==
  CASE tok = "t:long" -> Str(0, MinTextLength + 1, 0, "G")
    [] tok = "t:padlong" -> Str(1, MinTextLength + 1, 1, "G")
    [] tok = "t:padedge" -> Str(1, MinTextLength, 0, "G")
    [] tok = "t:empty" -> EmptyStr
    [] tok = "t:null" -> PyNone
    [] OTHER -> IntVal("7")

DateValue(tok) ==
  CASE tok = "d:iso" -> Str(0, 10, 0, "2024-01-02")
    [] tok = "d:text" -> Str(0, 21, 0, "January 2, 2024 10:00")
    [] tok = "d:bad" -> Str(0, 10, 0, "not-a-date")
    [] tok = "d:null" -> PyNone
    [] OTHER -> IntVal("20240102")

\* The last member of the object whose token is in S ("absent" when none is):
\* a repeated key keeps its last value.
LastMember(t, S) ==
  LET idx == {i \in 2..(Len(t) - 1) : t[i] \in S}
  IN IF idx = {} THEN "absent" ELSE t[CHOOSE i \in idx : \A j \in idx : j <= i]

\* json.loads(s): an object of members, an (empty) array, or JSONDecodeError.
\* Whitespace around the document and between its tokens is skipped.
JsonLoads(s) ==
  LET t == SeqStrip(s)
  IN IF /\ Len(t) >= 2
        /\ t[1] = "{"
        /\ t[Len(t)] = "}"
        /\ \A i \in 2..(Len(t) - 1) : t[i] \in TextTokens \cup DateTokens \cup Whitespace
     THEN [kind |-> "object", text |-> LastMember(t, TextTokens),
           date |-> LastMember(t, DateTokens)]
     ELSE IF t = <<"[", "]">>
     THEN [kind |-> "array", text |-> "absent", date |-> "absent"]
     ELSE [kind |-> "JSONDecodeError", text |-> "absent", date |-> "absent"]

\* ----------------------------------------------------------- date normaliser
\* dateutil's parser.parse(s).date().isoformat() on the date strings of the model.
ParsableDates == {"2024-01-02", "2024-01-02T10:00:00", "January 2, 2024 10:00"}
CanonicalDate == Str(0, 10, 0, "2024-01-02")

DateParserParse(v) ==
  IF ~IsStr(v) THEN Raise("TypeError")
  ELSE IF v.tag \in ParsableDates THEN Return(PyNone, CanonicalDate)
  ELSE Raise("ParserError")

\* normalize_date(date_str): the canonical date, or None under the except clause.
normalize_date(date_str) ==
  IF ~Truthy(date_str) THEN Return(PyNone, PyNone)
  ELSE LET r == DateParserParse(date_str)
       IN IF r.kind = "raise"
          THEN IF Caught(IF r.exc = "ParserError" THEN "ValueError" ELSE r.exc,
                         {"ValueError", "TypeError"})
               THEN Return(PyNone, PyNone)
               ELSE r
          ELSE r

\* ----------------------------------------------------------- stage extractors
\* extract_with_newspaper on a page a: what Article(url).download()/parse() did
\* (a.exc: the exception it raised, or "none"; a.text: article.text;
\* a.publish_date: article.publish_date).
NewspaperExcept == {"ArticleDownloadError", "ArticleParseError", "ValueError", "OSError"}

extract_with_newspaper(a) ==
  IF a.exc # "none"
  THEN IF Caught(a.exc, NewspaperExcept) THEN Negative ELSE Raise(a.exc)
  ELSE LET text == IF Truthy(a.text) THEN StrStrip(a.text) ELSE PyNone
           date == IF Truthy(a.publish_date)
                   THEN Str(0, 19, 0, a.publish_date.tag) ELSE PyNone
       IN IF Truthy(text) /\ StrLen(text) > MinTextLength
          THEN Return(text, date) ELSE Negative

\* Mutant of extract_with_trafilatura: the threshold test lets text of exactly
\* the threshold length through (>= for >).
extract_with_trafilatura_ge(p) ==
  IF p.exc # "none"
  THEN IF Caught(p.exc, {"HTMLFetchError", "ValueError", "OSError"})
       THEN Negative ELSE Raise(p.exc)
  ELSE IF ~p.downloaded THEN Negative
  ELSE LET date == IF Truthy(p.metadata_date) THEN p.metadata_date ELSE PyNone
       IN IF Truthy(p.text) /\ StrLen(p.text) >= MinTextLength
          THEN Return(p.text, date) ELSE Negative

\* extract_with_trafilatura on a page p (p.exc; p.downloaded: fetch_url's result is
\* truthy; p.text: trafilatura.extract's result; p.metadata_date: metadata.date, None
\* also when there is no metadata).
TrafilaturaExcept == {"HTMLFetchError", "ValueError", "OSError"}

extract_with_trafilatura(p) ==
  IF p.exc # "none"
  THEN IF Caught(p.exc, TrafilaturaExcept) THEN Negative ELSE Raise(p.exc)
  ELSE IF ~p.downloaded THEN Negative
  ELSE LET date == IF Truthy(p.metadata_date) THEN p.metadata_date ELSE PyNone
       IN IF Truthy(p.text) /\ StrLen(p.text) > MinTextLength
          THEN Return(p.text, date) ELSE Negative

\* Mutant of StripFences: only a plain opening fence is removed, its json tag stays.
StripFences_noTag(response_text) ==
  LET s0 == SeqStrip(response_text)
      s2 == IF StartsWith(s0, Fence) THEN SubSeq(s0, 4, Len(s0)) ELSE s0
      s3 == IF EndsWith(s2, Fence) THEN SubSeq(s2, 1, Len(s2) - 3) ELSE s2
  IN SeqStrip(s3)

\* The code-fence stripping of extract_with_gemini.
StripFences(response_text) ==
  LET s0 == SeqStrip(response_text)
      s1 == IF StartsWith(s0, FenceJson) THEN SubSeq(s0, 8, Len(s0)) ELSE s0
      s2 == IF StartsWith(s1, Fence) THEN SubSeq(s1, 4, Len(s1)) ELSE s1
      s3 == IF EndsWith(s2, Fence) THEN SubSeq(s2, 1, Len(s2) - 3) ELSE s2
  IN SeqStrip(s3)

\* The try body of extract_with_gemini from the response on: strip the fences,
\* json.loads, result.get("text", "").strip(), result.get("date"), the threshold.
ParseGeminiResponse(response_text) ==
  LET result == JsonLoads(StripFences(response_text))
      got == IF result.text = "absent" THEN EmptyStr ELSE TextValue(result.text)
      text == StrStrip(got)
      date == IF result.date = "absent" THEN PyNone ELSE DateValue(result.date)
  IN IF result.kind = "JSONDecodeError" THEN Raise("JSONDecodeError")
     ELSE IF result.kind # "object" THEN Raise("AttributeError")
     ELSE IF ~IsStr(got) THEN Raise("AttributeError")
     ELSE IF Truthy(text) /\ StrLen(text) > MinTextLength
     THEN Return(text, date) ELSE Negative

\* extract_with_gemini on a page g (g.http_exc: what requests.get/raise_for_status
\* raised; g.llm_exc: what gemini_api.query raised; g.response_text: its answer).
GeminiExcept == {"LLMExtractionError", "RequestException", "JSONDecodeError", "KeyError"}

extract_with_gemini(g) ==
  LET r == IF g.http_exc # "none" THEN Raise(g.http_exc)
           ELSE IF g.llm_exc # "none" THEN Raise(g.llm_exc)
           ELSE ParseGeminiResponse(g.response_text)
  IN IF r.kind = "raise" /\ Caught(r.exc, GeminiExcept) THEN Negative ELSE r

\* -------------------------------------------------------------- the inputs
\* Texts a page can hold: empty, whitespace only, at the threshold, above it,
\* with 0..MaxPad whitespace characters in front. g identifies the content.
Texts(g) ==
  {Str(p, c, 0, IF c = 0 THEN "" ELSE g) :
     p \in 0..MaxPad, c \in {0, MinTextLength, MinTextLength + 1}}

\* What newspaper's Article(url).download()/parse() can do with a URL.
NewspaperPages ==
  {[exc |-> e, text |-> EmptyStr, publish_date |-> PyNone] :
     e \in {"OSError", "ValueError", "ArticleException"}}
  \cup {[exc |-> "none", text |-> t, publish_date |-> d] :
          t \in Texts("N"), d \in {PyNone, DateTime("2024-01-02T10:00:00")}}

\* What trafilatura's fetch_url/extract/extract_metadata can do with a URL.
TrafilaturaPages ==
  {[exc |-> e, downloaded |-> FALSE, text |-> PyNone, metadata_date |-> PyNone] :
     e \in {"OSError", "ValueError"}}
  \cup {[exc |-> "none", downloaded |-> FALSE, text |-> PyNone, metadata_date |-> PyNone]}
  \cup {[exc |-> "none", downloaded |-> TRUE, text |-> t, metadata_date |-> d] :
          t \in Texts("T") \cup {PyNone},
          d \in {PyNone, Str(0, 10, 0, "2024-01-02"), Str(0, 10, 0, "not-a-date")}}

\* The JSON objects the LLM can answer with: any text member, any date member,
\* either or both left out.
Payloads ==
  {<<"{">> \o m \o <<"}">> :
     m \in {<<>>} \cup {<<t>> : t \in TextTokens} \cup {<<d>> : d \in DateTokens}
           \cup {<<t, d>> : t \in TextTokens, d \in DateTokens}}

\* A payload inside Markdown code fences: whitespace, an opening fence (none, plain
\* or tagged json), whitespace, the payload, whitespace, a closing fence (or none),
\* whitespace.
Wrap(lead, open, sep1, payload, sep2, close, trail) ==
  lead \o open \o sep1 \o payload \o sep2 \o close \o trail

Gaps == {<<>>, <<"\n">>, <<" ", "\n">>}
OpenFences == {<<>>, Fence, FenceJson}
CloseFences == {<<>>, Fence}

\* Answers that are no JSON object: an array, prose, nothing, a fence only.
NonObjects == {<<"[", "]">>, <<"x">>, <<>>, Fence, FenceJson \o <<"x">> \o Fence}

\* The answers the pipeline is run on: payloads bare, some fenced, the rest.
PipelineResponses ==
  {<<"{", "}">>}
  \cup {<<"{", t, "d:iso", "}">> : t \in TextTokens}
  \cup {<<"{", "t:long", d, "}">> : d \in DateTokens}
  \cup {Wrap(<<>>, FenceJson, <<"\n">>, pl, <<"\n">>, Fence, <<>>) :
          pl \in {<<"{", "t:long", "d:iso", "}">>, <<"{", "t:padedge", "}">>}}
  \cup NonObjects

GeminiPages ==
  {[http_exc |-> e, llm_exc |-> "none", response_text |-> <<>>] :
     e \in {"HTTPError", "Timeout"}}
  \cup {[http_exc |-> "none", llm_exc |-> "LLMExtractionError", response_text |-> <<>>]}
  \cup {[http_exc |-> "none", llm_exc |-> "none", response_text |-> r] :
          r \in PipelineResponses}

\* What the three libraries and the LLM do with one URL.
Pages ==
  {[newspaper |-> a, trafilatura |-> p, gemini |-> g] :
     a \in NewspaperPages, p \in TrafilaturaPages, g \in GeminiPages}

\* The URLs of a batch: a few representative pages (accepted by each stage in
\* turn, refused by all, failing inside a stage).
NoArticle == [exc |-> "none", text |-> EmptyStr, publish_date |-> PyNone]
NoDownload == [exc |-> "none", downloaded |-> FALSE, text |-> PyNone, metadata_date |-> PyNone]
Answer(r) == [http_exc |-> "none", llm_exc |-> "none", response_text |-> r]

BatchPages ==
  {[newspaper |-> [exc |-> "none", text |-> Str(0, MinTextLength + 1, 0, "N"),
                   publish_date |-> DateTime("2024-01-02T10:00:00")],
    trafilatura |-> NoDownload, gemini |-> Answer(<<>>)],
   [newspaper |-> NoArticle, trafilatura |-> NoDownload,
    gemini |-> Answer(Wrap(<<>>, FenceJson, <<"\n">>, <<"{", "t:long", "d:bad", "}">>,
                           <<"\n">>, Fence, <<>>))],
   [newspaper |-> NoArticle, trafilatura |-> NoDownload, gemini |-> Answer(<<"{", "}">>)],
   [newspaper |-> [exc |-> "ArticleException", text |-> EmptyStr, publish_date |-> PyNone],
    trafilatura |-> NoDownload, gemini |-> Answer(<<>>)]}

\* The url argument of extract_from_url: None, "", whitespace only, NaN, 0.0, and
\* a URL with and without whitespace around it.
UrlValues ==
  {PyNone, EmptyStr, NaN, ZeroFloat}
  \cup {Str(p, c, p, IF c = 0 THEN "" ELSE "u") : p \in 0..1, c \in {0, 20}}

\* The cells of a table read by pandas.read_csv: an empty cell is NaN (never None
\* or ""), a whitespace-only cell, a URL with whitespace around it.
CellValues == {NaN, Str(1, 0, 1, ""), Str(1, 20, 1, "u")}

\* ------------------------------------------------------------------ state
VARIABLES
  pc,             \* extract_from_url: idle, validate, newspaper, trafilatura, gemini,
                  \* returned, raised
  url,            \* its url argument, then the local url
  id_value,       \* its id_value argument
  page,           \* what the libraries and the LLM do with this URL
  calls,          \* the stage extractors invoked by the call, in order
  rets,           \* what each of them returned or raised, in order
  result,         \* the ExtractionResult returned
  exc,            \* the exception that left extract_from_url, or "none"
  bpc,            \* process_csv: off, start, loop, in_call, done, raised
  columns,        \* the columns of the input table (0 names the id column)
  nrows,          \* the rows of the input table
  id_column,      \* config.id_column
  url_columns,    \* config.url_columns
  row,            \* the row of the outer loop
  col,            \* the position in url_columns of the inner loop
  reads,          \* the (row, column, url) cells read so far
  results,        \* the results list
  output,         \* the rows of the output file
  written,        \* whether the output file was written
  bexc,           \* the exception that left process_csv, or "none"
  ppc,            \* the response parser on its own: off, input, done
  response_text,  \* a fenced answer of the LLM
  plain_text,     \* the same JSON object sent bare
  parsed_fenced,  \* the outcome of parsing response_text
  parsed_plain    \* the outcome of parsing plain_text

call_vars == <<pc, url, id_value, page, calls, rets, result, exc>>
batch_vars == <<bpc, columns, nrows, id_column, url_columns, row, col, reads,
                results, output, written, bexc>>
parse_vars == <<ppc, response_text, plain_text, parsed_fenced, parsed_plain>>
vars == <<call_vars, batch_vars, parse_vars>>

\* ExtractionResult(...): the dataclass of models.py.
Absent == "None"
ExtractionResult(idv, u, text, date, method, status, message) ==
  [id_value |-> idv, url |-> u, extracted_text |-> text, publication_date |-> date,
   extraction_method |-> method, status |-> status, error_message |-> message]
NoResult == ExtractionResult(0, PyNone, PyNone, PyNone, Absent, "no result", Absent)

\* What a call of extract_from_url ends with: a result, or an exception.
Returned(r) == [kind |-> "return", value |-> r, exc |-> "none"]
Raised(e) == [kind |-> "raise", value |-> NoResult, exc |-> e]

\* ExtractionResult.create_error(id_value=, url=, error_message=): the class of
\* models.py is a plain dataclass of seven fields and defines no create_error, so
\* the attribute lookup raises AttributeError.
create_error(idv, u, message) == Raised("AttributeError")

SomePage == CHOOSE x \in Pages : TRUE

CallInit ==
  /\ pc = "idle"
  /\ url = PyNone
  /\ id_value = 0
  /\ page = SomePage
  /\ calls = <<>>
  /\ rets = <<>>
  /\ result = NoResult
  /\ exc = "none"

BatchOff ==
  /\ bpc = "off"
  /\ columns = {}
  /\ nrows = 0
  /\ id_column = 0
  /\ url_columns = <<>>
  /\ row = 0
  /\ col = 0
  /\ reads = <<>>
  /\ results = <<>>
  /\ output = <<>>
  /\ written = FALSE
  /\ bexc = "none"

ParseOff ==
  /\ ppc = "off"
  /\ response_text = <<>>
  /\ plain_text = <<>>
  /\ parsed_fenced = Negative
  /\ parsed_plain = Negative

\* A direct call of extract_from_url.
Init == CallInit /\ BatchOff /\ ParseOff

\* --------------------------------------------------------- extract_from_url
\* The guard of extract_from_url: not url or not isinstance(url, str) or not
\* url.strip().
UrlInvalid(u) == ~Truthy(u) \/ ~IsStr(u) \/ ~Truthy(StrStrip(u))

\* Mutant of Accepts: the orchestrator ignores the text a stage returned.
Accepts_dropped(text) == FALSE

\* if text: the orchestrator's test of a stage's text.
Accepts(text) == Truthy(text)

\* Mutant of OnNegative: the second stage is skipped.
OnNegative_skip(stage) ==
  CASE stage = "newspaper" -> "gemini"
    [] stage = "trafilatura" -> "gemini"
    [] OTHER -> "failed"

\* Where extract_from_url goes after a stage that returned no text.
OnNegative(stage) ==
  CASE stage = "newspaper" -> "trafilatura"
    [] stage = "trafilatura" -> "gemini"
    [] OTHER -> "failed"

\* The extraction_method a stage's success is tagged with.
MethodOf(stage) == stage

Continue == [kind |-> "next", value |-> NoResult, exc |-> "none"]

\* What extract_from_url does with the outcome r of a stage: return the success
\* result with the date normalised, go on to the next stage, or, after the last
\* stage, return create_error(...); an exception of the stage passes through.
StageOutcome(stage, r, idv, u) ==
  IF r.kind = "raise" THEN Raised(r.exc)
  ELSE IF Accepts(r.text)
  THEN LET nd == normalize_date(r.date)
       IN IF nd.kind = "raise" THEN Raised(nd.exc)
          ELSE Returned(ExtractionResult(idv, u, r.text, nd.date, MethodOf(stage),
                                         "success", Absent))
  ELSE IF OnNegative(stage) = "failed"
  THEN create_error(idv, u, "All extraction methods failed")
  ELSE Continue

Finish(o, next) ==
  /\ pc' = IF o.kind = "return" THEN "returned"
           ELSE IF o.kind = "raise" THEN "raised" ELSE next
  /\ result' = o.value
  /\ exc' = o.exc

\* A direct call extract_from_url(u, i) on a URL whose pages are pg.
Call ==
  /\ bpc = "off"
  /\ ppc = "off"
  /\ pc = "idle"
  /\ \E u \in UrlValues, pg \in Pages :
       /\ url' = u
       /\ page' = IF UrlInvalid(u) THEN SomePage ELSE pg
  /\ id_value' = 1
  /\ pc' = "validate"
  /\ UNCHANGED <<calls, rets, result, exc, batch_vars, parse_vars>>

\* The validation and url = url.strip().
Validate ==
  /\ pc = "validate"
  /\ IF UrlInvalid(url)
     THEN /\ Finish(create_error(id_value, IF Truthy(url) THEN url ELSE EmptyStr,
                                 "Empty or invalid URL"), "validate")
          /\ url' = url
     ELSE /\ url' = StrStrip(url)
          /\ pc' = "newspaper"
          /\ UNCHANGED <<result, exc>>
  /\ UNCHANGED <<id_value, page, calls, rets, batch_vars, parse_vars>>

RunStage(stage, r) ==
  /\ calls' = Append(calls, stage)
  /\ rets' = Append(rets, r)
  /\ Finish(StageOutcome(stage, r, id_value, url), OnNegative(stage))
  /\ UNCHANGED <<url, id_value, page, batch_vars, parse_vars>>

\* Stage 1: newspaper3k
StageNewspaper ==
  /\ pc = "newspaper"
  /\ RunStage("newspaper", extract_with_newspaper(page.newspaper))

\* Stage 2: trafilatura
StageTrafilatura ==
  /\ pc = "trafilatura"
  /\ RunStage("trafilatura", extract_with_trafilatura(page.trafilatura))

\* Stage 3: Gemini, and "All methods failed" after it
StageGemini ==
  /\ pc = "gemini"
  /\ RunStage("gemini", extract_with_gemini(page.gemini))

Next == Call \/ Validate \/ StageNewspaper \/ StageTrafilatura \/ StageGemini

Spec == Init /\ [][Next]_vars

\* -------------------------------------------------------------- process_csv
\* The configured URL columns: one to MaxCols distinct columns, in any order.
UrlColumnChoices ==
  {q \in UNION {[1..n -> 1..MaxCols] : n \in 1..MaxCols} :
     \A i, j \in DOMAIN q : i # j => q[i] # q[j]}

\* A batch run: a table (its columns, its rows) and a configuration.
BatchInit ==
  /\ CallInit
  /\ ParseOff
  /\ bpc = "start"
  /\ columns \in SUBSET (0..MaxCols)
  /\ nrows \in 0..MaxRows
  /\ id_column = 0
  /\ url_columns \in UrlColumnChoices
  /\ row = 0
  /\ col = 0
  /\ reads = <<>>
  /\ results = <<>>
  /\ output = <<>>
  /\ written = FALSE
  /\ bexc = "none"

\* missing_cols = [col for col in config.url_columns if col not in df.columns]
MissingCols(ucs, cols) == SelectSeq(ucs, LAMBDA c : c \notin cols)

\* Mutant of ColumnCheck: the URL columns are not checked.
ColumnCheck_idOnly(idc, ucs, cols) ==
  IF idc \notin cols THEN "ValueError" ELSE "none"

\* The two column checks: the exception they raise, or "none".
ColumnCheck(idc, ucs, cols) ==
  IF idc \notin cols THEN "ValueError"
  ELSE IF MissingCols(ucs, cols) # <<>> THEN "ValueError"
  ELSE "none"

\* pd.read_csv, the column validation, results = [].
ValidateColumns ==
  /\ bpc = "start"
  /\ LET e == ColumnCheck(id_column, url_columns, columns)
     IN IF e # "none"
        THEN /\ bpc' = "raised"
             /\ bexc' = e
             /\ UNCHANGED <<row, col>>
        ELSE /\ bpc' = "loop"
             /\ row' = 1
             /\ col' = 1
             /\ bexc' = bexc
  /\ UNCHANGED <<columns, nrows, id_column, url_columns, reads, results, output,
                 written, call_vars, parse_vars>>

\* One pass of the inner loop up to the call: id_value = str(row[id_column]),
\* url = row[url_col], result = self.extract_from_url(url, id_value).
ReadCell ==
  /\ bpc = "loop"
  /\ row <= nrows
  /\ pc = "idle"
  /\ \E u \in CellValues, pg \in BatchPages :
       /\ url' = u
       /\ page' = IF UrlInvalid(u) THEN SomePage ELSE pg
       /\ reads' = Append(reads, [row |-> row, column |-> url_columns[col], url |-> u])
  /\ id_value' = row
  /\ calls' = <<>>
  /\ rets' = <<>>
  /\ result' = NoResult
  /\ exc' = "none"
  /\ pc' = "validate"
  /\ bpc' = "in_call"
  /\ UNCHANGED <<columns, nrows, id_column, url_columns, row, col, results, output,
                 written, bexc, parse_vars>>

\* results.append(result), and on to the next column or row.
AppendResult ==
  /\ bpc = "in_call"
  /\ pc = "returned"
  /\ results' = Append(results, result)
  /\ IF col < Len(url_columns)
     THEN col' = col + 1 /\ row' = row
     ELSE col' = 1 /\ row' = row + 1
  /\ pc' = "idle"
  /\ bpc' = "loop"
  /\ UNCHANGED <<columns, nrows, id_column, url_columns, reads, output, written, bexc,
                 url, id_value, page, calls, rets, result, exc, parse_vars>>

\* process_csv has no try: an exception of extract_from_url ends the run.
Propagate ==
  /\ bpc = "in_call"
  /\ pc = "raised"
  /\ bpc' = "raised"
  /\ bexc' = exc
  /\ UNCHANGED <<columns, nrows, id_column, url_columns, row, col, reads, results,
                 output, written, call_vars, parse_vars>>

\* One row of the output DataFrame.
OutputRow(r) ==
  [id |-> r.id_value, url |-> r.url, extracted_text |-> r.extracted_text,
   publication_date |-> r.publication_date, extraction_method |-> r.extraction_method,
   status |-> r.status, error_message |-> r.error_message]

\* After the loops: the output DataFrame and to_csv.
WriteOutput ==
  /\ bpc = "loop"
  /\ row > nrows
  /\ output' = [k \in 1..Len(results) |-> OutputRow(results[k])]
  /\ written' = TRUE
  /\ bpc' = "done"
  /\ UNCHANGED <<columns, nrows, id_column, url_columns, row, col, reads, results,
                 bexc, call_vars, parse_vars>>

BatchNext ==
  \/ ValidateColumns
  \/ ReadCell
  \/ Validate
  \/ StageNewspaper
  \/ StageTrafilatura
  \/ StageGemini
  \/ AppendResult
  \/ Propagate
  \/ WriteOutput

BatchSpec == BatchInit /\ [][BatchNext]_vars

\* ------------------------------------------------- the response parser alone
\* A JSON object and the same object inside code fences (an opening fence, a
\* closing fence, or both).
ParseInit ==
  /\ CallInit
  /\ BatchOff
  /\ ppc = "input"
  /\ plain_text \in Payloads
  /\ \E lead \in Gaps, open \in OpenFences, sep1 \in Gaps, sep2 \in Gaps,
        close \in CloseFences, trail \in Gaps :
       /\ open # <<>> \/ close # <<>>
       /\ response_text = Wrap(lead, open, sep1, plain_text, sep2, close, trail)
  /\ parsed_fenced = Negative
  /\ parsed_plain = Negative

\* extract_with_gemini on the fenced answer and on the bare one.
ParseBoth ==
  /\ ppc = "input"
  /\ parsed_fenced' = extract_with_gemini(Answer(response_text))
  /\ parsed_plain' = extract_with_gemini(Answer(plain_text))
  /\ ppc' = "done"
  /\ UNCHANGED <<response_text, plain_text, call_vars, batch_vars>>

ParseNext == ParseBoth

ParseSpec == ParseInit /\ [][ParseNext]_vars

\* ------------------------------------------------------------------ claims
Stages == <<"newspaper", "trafilatura", "gemini">>

\* What a stage does with the pages of the current URL.
StageRun(stage) ==
  CASE stage = "newspaper" -> extract_with_newspaper(page.newspaper)
    [] stage = "trafilatura" -> extract_with_trafilatura(page.trafilatura)
    [] OTHER -> extract_with_gemini(page.gemini)

\* A stage outcome that is text longer than the threshold.
Qualifies(r) ==
  r.kind = "return" /\ IsStr(r.text) /\ StrLen(r.text) > MinTextLength

IsNegative(r) == r = Negative

\* The url argument is None, "" or whitespace only.
Blank(u) == u = PyNone \/ (IsStr(u) /\ u.core = 0)

Ended == pc \in {"returned", "raised"}

\* The table lacks the configured identifier column or a configured URL column.
ColumnMissing ==
  id_column \notin columns \/ \E i \in DOMAIN url_columns : url_columns[i] \notin columns

C2_NeverRaises == pc # "raised"

\* C3: every result of extract_from_url is a success with text longer than 100
\* characters and a method, or an error with text, date and method absent; it
\* carries an error message exactly when it is an error.
C3_ResultInvariant ==
  pc = "returned" =>
    /\ result.status \in {"success", "error"}
    /\ result.status = "success" =>
         /\ IsStr(result.extracted_text)
         /\ StrLen(result.extracted_text) > MinTextLength
         /\ result.extraction_method \in {"newspaper", "trafilatura", "gemini"}
    /\ result.status = "error" =>
         /\ result.extracted_text = PyNone
         /\ result.publication_date = PyNone
         /\ result.extraction_method = Absent
    /\ (result.error_message # Absent) <=> (result.status = "error")

\* C3 witness: a success result whose text is just above the threshold and was
\* returned by the stage that does not strip it.
C3_Witness ==
  /\ pc = "returned"
  /\ result.status = "success"
  /\ result.extraction_method = "trafilatura"
  /\ StrLen(result.extracted_text) = MinTextLength + 1
  /\ result.publication_date = CanonicalDate

\* C4: a call on a non-blank URL whose three stages each return the negative
\* result returns the error result "All extraction methods failed", with text,
\* date and method absent.
C4_AllFailedIsErrorResult ==
  (Ended /\ Len(rets) = 3 /\ \A k \in DOMAIN rets : IsNegative(rets[k])) =>
    /\ pc = "returned"
    /\ result.status = "error"
    /\ result.error_message = "All extraction methods failed"
    /\ result.extracted_text = PyNone
    /\ result.publication_date = PyNone
    /\ result.extraction_method = Absent

\* C5: a call with an empty, null or whitespace-only URL returns the error result
\* "Empty or invalid URL" at once, and no stage extractor is invoked.
C5_BlankUrlIsErrorResult ==
  (Blank(url) /\ pc \notin {"idle", "validate"}) =>
    /\ pc = "returned"
    /\ result.status = "error"
    /\ result.error_message = "Empty or invalid URL"
    /\ calls = <<>>

\* C6: on a table that has the identifier column and every URL column,
\* process_csv ends with one output row per (row, URL column) pair, in row-major
\* order, whatever the extractions did: R rows and C columns give R*C output rows,
\* the k-th (from 0) with the id of row k div C and the URL of column k mod C.
C6_OneRowPerPair ==
  (~ColumnMissing /\ bpc \in {"done", "raised"}) =>
    /\ bpc = "done"
    /\ written
    /\ Len(output) = nrows * Len(url_columns)
    /\ Len(reads) = Len(output)
    /\ \A k \in 0..(Len(output) - 1) :
         /\ output[k + 1].id = (k \div Len(url_columns)) + 1
         /\ reads[k + 1].row = (k \div Len(url_columns)) + 1
         /\ reads[k + 1].column = url_columns[(k % Len(url_columns)) + 1]
         /\ output[k + 1].url \in {reads[k + 1].url, StrStrip(reads[k + 1].url)}

\* C7: when the identifier column or a configured URL column is missing from the
\* table, process_csv raises (ValueError) before any pair is processed: no cell is
\* read, no stage extractor is invoked, no output is written.
C7_MissingColumnAborts ==
  ColumnMissing =>
    /\ bpc \in {"start", "raised"}
    /\ bpc = "raised" => bexc = "ValueError"
    /\ reads = <<>>
    /\ calls = <<>>
    /\ pc = "idle"
    /\ results = <<>>
    /\ ~written

\* C7 witness: a run that raised on a table with rows and the identifier column,
\* one of whose configured URL columns is missing.
C7_Witness ==
  /\ bpc = "raised"
  /\ bexc = "ValueError"
  /\ id_column \in columns
  /\ nrows > 0
  /\ \E i \in DOMAIN url_columns : url_columns[i] \in columns

\* C8: a JSON object inside code fences (an opening fence, tagged json or not,
\* and/or a closing fence, with whitespace around them) gives extract_with_gemini
\* the same (text, date) outcome as the same object sent bare.
C8_FencedParsesAsBare ==
  ppc = "done" => parsed_fenced = parsed_plain

\* C8 witness: an answer opening with a json-tagged fence and closing with a fence,
\* parsed to qualifying text and a date.
C8_Witness ==
  /\ ppc = "done"
  /\ StartsWith(SeqStrip(response_text), FenceJson)
  /\ EndsWith(SeqStrip(response_text), Fence)
  /\ Qualifies(parsed_fenced)
  /\ parsed_fenced.date # PyNone

\* C9: no stage extractor raises to its caller: every stage invoked returns
\* (text, date) or the negative result (None, None).
C9_StagesNeverRaise ==
  \A k \in DOMAIN rets : rets[k].kind = "return"

\* C10: the stages of a call are invoked in the order newspaper, trafilatura,
\* gemini, each at most once; every stage before the last one invoked returned
\* the negative result; and a stage that returned text is the last one invoked,
\* the call returning then.
C10_StageOrder ==
  /\ Len(calls) <= 3
  /\ Len(rets) = Len(calls)
  /\ \A k \in DOMAIN calls : calls[k] = Stages[k]
  /\ \A k \in 1..(Len(calls) - 1) : IsNegative(rets[k])
  /\ \A k \in DOMAIN rets :
       (rets[k].kind = "return" /\ Truthy(rets[k].text)) =>
         k = Len(calls) /\ pc = "returned"
  /\ pc \in {"newspaper", "trafilatura", "gemini"} =>
       /\ Len(calls) < 3
       /\ pc = Stages[Len(calls) + 1]

\* C10 witness: all three stages were invoked, the third after two negative results.
C10_Witness ==
  /\ calls = Stages
  /\ pc = "returned"
  /\ result.extraction_method = "gemini"

====
